---- MODULE Spec2Model ----
(***************************************************************************)
(* Verification model of the trajectory store of nyx                       *)
(* (src/md/trajectory/traj.rs): Traj::finalize, Traj::at, the merge        *)
(* operators, the Brent root solver Traj::find_bracketed, the parallel     *)
(* searches Traj::find_all and Traj::find_minmax, Traj::to_frame and the   *)
(* iterators Traj::every and Traj::every_between; and of                   *)
(* TrackingArc::min_duration_sep (src/od/msr/arc.rs), of the polynomial    *)
(* product (src/polyfit/polynomial.rs), of InterpState for Orbit and       *)
(* Spacecraft (src/md/trajectory/mod.rs) and of Spacecraft::stm            *)
(* (src/celestia/spacecraft.rs).                                           *)
(*                                                                         *)
(* Epochs are integers (one unit = one tick of the Epoch type).  A sample  *)
(* is a record [epoch, id, src]: `id` stands for the payload of the state  *)
(* (position, velocity, ...), so that two samples with the same epoch and  *)
(* different ids are different states.                                     *)
(***************************************************************************)
EXTENDS Integers, Sequences, FiniteSets, TLC

\* ---------------------------------------------------------------- bounds
\* Epochs pushed into the store range over 0..MaxEpoch.
MaxEpoch == 3
\* Total number of samples pushed into the store.
MaxPush == 3
\* Length of the right-hand operand of a merge.
MaxOtherLen == 2
\* Width of usize in the model (the build's is 64).
UsizeBits == 16

\* Number of samples of the trajectory the root solver searches; they are
\* FBStride ticks apart, the first one at epoch 0.
FBLen == 6
FBStride == 2
\* Resolution of the f64 model: XScale units of an f64 number of seconds
\* make one tick of the Epoch type.
XScale == 2
\* Largest value_precision and epoch_precision (in ticks) of an event.
MaxValuePrecision == 1
MaxEpochPrecision == 1

\* ------------------------------------------------------ program constants
INTERPOLATION_SAMPLES == 6
max_iter == 50

VARIABLES
    states,     \* Traj::states of the store under test
    pushed,     \* number of samples pushed so far
    finalized,  \* TRUE iff finalize() ran after the last push
    last_op,    \* the last operation and what it returned
    fb,         \* the running call of find_bracketed: its locals and result
    fa,         \* the running call of find_all or find_minmax: its tasks,
                \* its channel and its result
    it,         \* the TrajIterator in use: its time series and what it
                \* yielded so far
    obj         \* the value under test of the other modules (a tracking
                \* arc, a pair of polynomials, an orbit or a spacecraft)

vars == <<states, pushed, finalized, last_op, fb, fa, it, obj>>

Epochs == 0..MaxEpoch
QueryEpochs == (0 - 1)..(MaxEpoch + 1)
UsizeMod == 2 ^ UsizeBits

Sample(e, i, s) == [epoch |-> e, id |-> i, src |-> s]

Min(a, b) == IF a < b THEN a ELSE b
Max(a, b) == IF a > b THEN a ELSE b

EpochsOf(s) == {s[i].epoch : i \in 1..Len(s)}

\* Non-strictly sorted by epoch: what sort_by_key guarantees.
IsSorted(s) == \A i \in 1..(Len(s) - 1) : s[i].epoch <= s[i + 1].epoch

\* Strictly increasing in epoch: sorted, no two samples share an epoch.
StrictlyIncreasing(s) == \A i \in 1..(Len(s) - 1) : s[i].epoch < s[i + 1].epoch

\* ------------------------------------------------------------- finalize

\* Vec::dedup_by(|a, b| a.epoch().eq(&b.epoch())): an element is removed when
\* it has the epoch of the element retained just before it.
RECURSIVE dedup_by(_)
dedup_by(s) ==
    IF Len(s) <= 1 THEN s
    ELSE LET r == dedup_by(SubSeq(s, 1, Len(s) - 1))
             x == s[Len(s)]
         IN  IF x.epoch = r[Len(r)].epoch THEN r ELSE Append(r, x)

\* Insert x after every element whose key is <= x's (stable).
RECURSIVE insert_sorted(_, _)
insert_sorted(s, x) ==
    IF s = <<>> THEN <<x>>
    ELSE IF s[Len(s)].epoch <= x.epoch THEN Append(s, x)
    ELSE Append(insert_sorted(SubSeq(s, 1, Len(s) - 1), x), s[Len(s)])

\* Vec::sort_by_key(|a| a.epoch()): a stable sort.
RECURSIVE sort_by_key(_)
sort_by_key(s) ==
    IF Len(s) <= 1 THEN s
    ELSE insert_sorted(sort_by_key(SubSeq(s, 1, Len(s) - 1)), s[Len(s)])

\* Traj::finalize: dedup first, then sort.
finalize(s) == sort_by_key(dedup_by(s))

\* ------------------------------------------------------------------- at

\* slice::binary_search_by on a sorted slice, 0-based: Ok(idx) for any one
\* of the matches, otherwise Err(insertion index).
binary_search_by(s, epoch) ==
    LET hits == {i \in 0..(Len(s) - 1) : s[i + 1].epoch = epoch}
    IN  IF hits # {}
        THEN {[ok |-> TRUE, idx |-> i] : i \in hits}
        ELSE {[ok |-> FALSE,
               idx |-> Cardinality({i \in 1..Len(s) : s[i].epoch < epoch})]}

\* The interpolator: the anchor rebuilds the state at `epoch` from the window;
\* the fields it does not interpolate are those of the anchor.
interpolate(anchor, epoch, window) ==
    IF window = <<>>
    THEN {"Ok", "InterpolationError"}
    ELSE {"Ok"}

NoData(epoch) ==
    [kind |-> "NoInterpolationData", epoch |-> epoch, interpolated |-> FALSE]

\* The window of at(), for an insertion index 0 < idx < len: the outcomes
\* [first_idx, last_idx, overflow].  `last_idx - 2 * num_left` underflows
\* when len < INTERPOLATION_SAMPLES: a panic with overflow checks, a
\* wrapped index without.
window_of(len, idx) ==
    LET num_left == INTERPOLATION_SAMPLES \div 2
        first0 == Max(idx - num_left, 0)
        last_idx == Min(len, first0 + INTERPOLATION_SAMPLES)
    IN  IF last_idx = len
        THEN IF last_idx - 2 * num_left < 0
             THEN {[first_idx |-> last_idx - 2 * num_left, last_idx |-> last_idx,
                    overflow |-> "panic"],
                   [first_idx |-> (last_idx - 2 * num_left) + UsizeMod,
                    last_idx |-> last_idx, overflow |-> "wrapped"]}
             ELSE {[first_idx |-> last_idx - 2 * num_left, last_idx |-> last_idx,
                    overflow |-> "none"]}
        ELSE {[first_idx |-> first0, last_idx |-> last_idx, overflow |-> "none"]}

\* for idx in first_idx..last_idx { states.push(self.states[idx]) }
window_states(s, w) ==
    IF w.first_idx >= w.last_idx THEN <<>>
    ELSE SubSeq(s, w.first_idx + 1, w.last_idx)

\* Traj::at past the range check: the binary search, the exact hit, the
\* defensive index check and the interpolation over the window.
at_search(s, epoch) ==
    UNION {
        IF b.ok
        THEN {[kind |-> "Ok", epoch |-> epoch, interpolated |-> FALSE,
               state |-> s[b.idx + 1], idx |-> b.idx]}
        ELSE IF b.idx = 0 \/ b.idx >= Len(s)
        THEN {NoData(epoch)}
        ELSE UNION {
            IF w.overflow = "panic"
            THEN {[kind |-> "panic", epoch |-> epoch, interpolated |-> FALSE,
                   idx |-> b.idx, first_idx |-> w.first_idx,
                   last_idx |-> w.last_idx, overflow |-> w.overflow]}
            ELSE {[kind |-> k, epoch |-> epoch, interpolated |-> TRUE,
                   state |-> Sample(epoch, s[b.idx + 1].id, "interp"),
                   anchor |-> s[b.idx + 1],
                   idx |-> b.idx, first_idx |-> w.first_idx,
                   last_idx |-> w.last_idx, overflow |-> w.overflow,
                   window |-> window_states(s, w)]
                  : k \in interpolate(s[b.idx + 1], epoch, window_states(s, w))}
            : w \in window_of(Len(s), b.idx)}
        : b \in binary_search_by(s, epoch)}

\* at() without `self.states.is_empty() ||`: first() unwraps None and panics.
at_no_empty_check(s, epoch) ==
    IF s = <<>>
    THEN {[kind |-> "panic", epoch |-> epoch, interpolated |-> FALSE]}
    ELSE IF s[1].epoch > epoch \/ s[Len(s)].epoch < epoch
    THEN {NoData(epoch)}
    ELSE at_search(s, epoch)

\* Traj::at: the set of results the call can produce.
at(s, epoch) ==
    IF s = <<>> \/ s[1].epoch > epoch \/ s[Len(s)].epoch < epoch
    THEN {NoData(epoch)}
    ELSE at_search(s, epoch)

\* ---------------------------------------------------------------- merge

\* The trajectories a store is merged with: finalized, non-empty.
RECURSIVE AscendingFrom(_, _)
AscendingFrom(lo, n) ==
    IF n = 0 THEN {<<>>}
    ELSE UNION {{<<Sample(e, 0, "other")>> \o t : t \in AscendingFrom(e + 1, n - 1)}
                : e \in lo..MaxEpoch}

OtherTrajs == UNION {AscendingFrom(0, n) : n \in 1..MaxOtherLen}

\* impl Add<&Traj<S>> for Traj<S>: [panic, warned, states].
add(self, other) ==
    IF self = <<>> \/ other = <<>>
    THEN [panic |-> TRUE, warned |-> FALSE, states |-> self]
    ELSE LET self_first == self[1].epoch < other[1].epoch
             first == IF self_first THEN self ELSE other
             second == IF self_first THEN other ELSE self
         IN  [panic |-> FALSE,
              warned |-> first[Len(first)].epoch < second[1].epoch,
              states |-> finalize(self \o second)]

\* -------------------------------------------------------------- actions

Init ==
    /\ states = <<>>
    /\ pushed = 0
    /\ finalized = FALSE
    /\ last_op = [op |-> "new"]
    /\ fb = [pc |-> "idle"]
    /\ fa = [pc |-> "idle"]
    /\ it = [pc |-> "idle"]
    /\ obj = [ty |-> "none"]

\* self.states.push(sample)
Push ==
    /\ pushed < MaxPush
    /\ \E e \in Epochs :
         /\ states' = Append(states, Sample(e, pushed + 1, "push"))
         /\ last_op' = [op |-> "push", epoch |-> e]
    /\ pushed' = pushed + 1
    /\ finalized' = FALSE
    /\ UNCHANGED <<fb, fa, it, obj>>

\* traj.finalize()
Finalize ==
    /\ states' = finalize(states)
    /\ finalized' = TRUE
    /\ last_op' = [op |-> "finalize", before |-> states, prev |-> last_op.op]
    /\ UNCHANGED <<pushed, fb, fa, it, obj>>

\* traj += other, for a store that holds pushed samples only (a store is
\* merged with one other trajectory) and no more of them than were pushed
AddAssign ==
    /\ Len(states) <= MaxPush
    /\ \A i \in 1..Len(states) : states[i].src = "push"
    /\ \E other \in OtherTrajs :
         LET r == add(states, other)
         IN  /\ states' = r.states
             /\ finalized' = IF r.panic THEN finalized ELSE TRUE
             /\ last_op' = [op |-> "add", self |-> states, other |-> other,
                            self_finalized |-> finalized,
                            panic |-> r.panic, warned |-> r.warned]
    /\ UNCHANGED <<pushed, fb, fa, it, obj>>

\* traj.at(epoch), on a store whose samples are in order
At ==
    /\ IsSorted(states)
    /\ \E epoch \in QueryEpochs : \E r \in at(states, epoch) :
         last_op' = [op |-> "at", res |-> r]
    /\ UNCHANGED <<states, pushed, finalized, fb, fa, it, obj>>

Next == Push \/ Finalize \/ AddAssign \/ At

Spec == Init /\ [][Next]_vars

\* ------------------------------------------------------------ f64 model
\* An f64 is a record [k, s, v]: finite (sign s, magnitude v, so that zero is
\* signed), infinite (sign s) or NaN.  Finite numbers are fixed-point: the
\* quotient of a division is truncated toward zero.

Fin(sg, v) == [k |-> "fin", s |-> sg, v |-> v]
F(n) == IF n < 0 THEN Fin(0 - 1, 0 - n) ELSE Fin(1, n)
NaN == [k |-> "nan", s |-> 1, v |-> 0]
Inf(sg) == [k |-> "inf", s |-> sg, v |-> 0]
IsNaN(a) == a.k = "nan"
Val(a) == a.s * a.v

FNeg(a) == IF IsNaN(a) THEN a ELSE [a EXCEPT !.s = 0 - a.s]
FAbs(a) == IF IsNaN(a) THEN a ELSE [a EXCEPT !.s = 1]

FAdd(a, b) ==
    IF IsNaN(a) \/ IsNaN(b) THEN NaN
    ELSE IF a.k = "inf" THEN (IF b.k = "inf" /\ b.s # a.s THEN NaN ELSE a)
    ELSE IF b.k = "inf" THEN b
    ELSE IF Val(a) + Val(b) = 0
    THEN Fin(IF a.s < 0 /\ b.s < 0 THEN 0 - 1 ELSE 1, 0)
    ELSE F(Val(a) + Val(b))

FSub(a, b) == FAdd(a, FNeg(b))

FMul(a, b) ==
    IF IsNaN(a) \/ IsNaN(b) THEN NaN
    ELSE IF a.k = "inf" \/ b.k = "inf"
    THEN (IF (a.k = "fin" /\ a.v = 0) \/ (b.k = "fin" /\ b.v = 0)
          THEN NaN ELSE Inf(a.s * b.s))
    ELSE Fin(a.s * b.s, a.v * b.v)

FDiv(a, b) ==
    IF IsNaN(a) \/ IsNaN(b) THEN NaN
    ELSE IF a.k = "inf" THEN (IF b.k = "inf" THEN NaN ELSE Inf(a.s * b.s))
    ELSE IF b.k = "inf" THEN Fin(a.s * b.s, 0)
    ELSE IF b.v = 0 THEN (IF a.v = 0 THEN NaN ELSE Inf(a.s * b.s))
    ELSE Fin(a.s * b.s, a.v \div b.v)

FLt(a, b) ==
    /\ ~IsNaN(a)
    /\ ~IsNaN(b)
    /\ IF a.k = "inf" THEN a.s < 0 /\ ~(b.k = "inf" /\ b.s < 0)
       ELSE IF b.k = "inf" THEN b.s > 0
       ELSE Val(a) < Val(b)
FLe(a, b) == ~IsNaN(a) /\ ~IsNaN(b) /\ ~FLt(b, a)
FGt(a, b) == FLt(b, a)
FGe(a, b) == FLe(b, a)

\* Duration::to_seconds(): a whole number of ticks as an f64 of seconds.
to_seconds(ticks) == F(ticks * XScale)

\* x * Unit::Second: the f64 of seconds cast to a whole number of ticks,
\* truncated toward zero; the cast of NaN is 0 and that of an infinity
\* saturates, away from every trajectory.
Seconds(x) ==
    IF IsNaN(x) THEN 0
    ELSE IF x.k = "inf" THEN x.s * (FBLen * FBStride + 2)
    ELSE x.s * (x.v \div XScale)

AbsInt(n) == IF n < 0 THEN 0 - n ELSE n

\* ------------------------------------------------------ event evaluator
\* EventEvaluator::eval of a state: an f64.  The events of the model are
\* functions of the epoch of the state.
Events ==
    {[kind |-> "linear", a |-> a, c |-> c] : a \in {1, 2}, c \in {5, 6}}
    \cup {[kind |-> "const", a |-> 0, c |-> c] : c \in {0, 3}}
    \cup {[kind |-> "parabola", a |-> a, c |-> 4] : a \in {3, 4}}
    \cup {[kind |-> "nan_at", a |-> 1, c |-> c] : c \in {0, 4}}
    \cup {[kind |-> "nan_root", a |-> 1, c |-> 5]}

eval(event, state) ==
    CASE event.kind = "linear" -> F(event.a * state.epoch - event.c)
      [] event.kind = "const" -> F(event.c)
      [] event.kind = "parabola" ->
            F((state.epoch - event.c) * (state.epoch - event.c) - event.a)
      [] event.kind = "nan_at" ->
            IF state.epoch = event.c THEN NaN ELSE F(state.epoch - 2 * event.c - 1)
      [] event.kind = "nan_root" ->
            IF state.epoch = event.c THEN NaN ELSE F(state.epoch - event.c)
      [] event.kind = "abs" -> F(AbsInt(state.epoch - event.c) - event.a)
      [] event.kind = "dip" ->
            IF state.epoch = event.c THEN F(0) ELSE F(5 + event.a * state.epoch)
      [] event.kind = "nan" -> NaN

\* ------------------------------------------------------- find_bracketed

NoState == Sample(0, 0, "none")

\* has_converged with the comparison reversed: a wide bracket counts as
\* collapsed.
has_converged_reversed(x1, x2, ep) == FGe(FAbs(FSub(x1, x2)), to_seconds(ep))

\* let has_converged = |x1, x2| (x1 - x2).abs() <= epoch_precision.to_seconds()
has_converged(x1, x2, ep) == FLe(FAbs(FSub(x1, x2)), to_seconds(ep))

\* arrange whose swapped result keeps the event values in place: each point
\* is paired with the event value of the other.
arrange_mismatched(a, ya, b, yb) ==
    IF FGt(FAbs(ya), FAbs(yb))
    THEN [xa |-> a, ya |-> ya, xb |-> b, yb |-> yb]
    ELSE [xa |-> b, ya |-> ya, xb |-> a, yb |-> yb]

\* let arrange = |a, ya, b, yb| ...
arrange(a, ya, b, yb) ==
    IF FGt(FAbs(ya), FAbs(yb))
    THEN [xa |-> a, ya |-> ya, xb |-> b, yb |-> yb]
    ELSE [xa |-> b, ya |-> yb, xb |-> a, yb |-> ya]

\* y.abs() > f64::EPSILON: the unit of the fixed-point event values is far
\* above f64::EPSILON, so every non-zero finite value exceeds it.
exceeds_epsilon(y) == FGt(FAbs(y), F(0))

\* The trial point: inverse quadratic interpolation, or the secant.
trial_point(xa, ya, xb, yb, xc, yc) ==
    IF exceeds_epsilon(FSub(ya, yc)) /\ exceeds_epsilon(FSub(yb, yc))
    THEN FAdd(FAdd(FDiv(FMul(FMul(xa, yb), yc), FMul(FSub(ya, yb), FSub(ya, yc))),
                   FDiv(FMul(FMul(xb, ya), yc), FMul(FSub(yb, ya), FSub(yb, yc)))),
              FDiv(FMul(FMul(xc, ya), yb), FMul(FSub(yc, ya), FSub(yc, yb))))
    ELSE FSub(xb, FDiv(FMul(yb, FSub(xb, xa)), FSub(yb, ya)))

\* The test without cond1: a trial point outside the bracket is kept.
bisect_without_cond1(s, xa, xb, xc, xd, flag, ep) ==
    \/ flag /\ FGe(FAbs(FSub(s, xb)), FDiv(FAbs(FSub(xb, xc)), F(2)))
    \/ ~flag /\ FGe(FAbs(FSub(s, xb)), FDiv(FAbs(FSub(xc, xd)), F(2)))
    \/ flag /\ has_converged(xb, xc, ep)
    \/ ~flag /\ has_converged(xc, xd, ep)

\* cond1 || cond2 || cond3 || cond4 || cond5: bisect instead.
bisect(s, xa, xb, xc, xd, flag, ep) ==
    \/ FGt(FMul(FSub(s, xb),
                FSub(s, FDiv(FAdd(FMul(F(3), xa), xb), F(4)))), F(0))
    \/ flag /\ FGe(FAbs(FSub(s, xb)), FDiv(FAbs(FSub(xb, xc)), F(2)))
    \/ ~flag /\ FGe(FAbs(FSub(s, xb)), FDiv(FAbs(FSub(xc, xd)), F(2)))
    \/ flag /\ has_converged(xb, xc, ep)
    \/ ~flag /\ has_converged(xc, xd, ep)

\* return <result>
Return(f, kind, state) ==
    [f EXCEPT !.pc = "done", !.result = [kind |-> kind, state |-> state]]

\* return self.at(epoch)
ReturnAt(f, r) == Return(f, r.kind, IF r.kind = "Ok" THEN r.state ELSE NoState)

\* The body of find_bracketed before the loop, given the results of
\* self.at(xa_e) and self.at(xb_e).
fb_enter(start, end, event, vp, ep, ra, rb) ==
    LET f0 == [pc |-> "loop", start |-> start, end |-> end, event |-> event,
               vp |-> vp, ep |-> ep, iter |-> 0,
               xa |-> F(0), ya |-> F(0), xb |-> to_seconds(end - start),
               yb |-> F(0), xc |-> F(0), yc |-> F(0), xd |-> F(0),
               flag |-> TRUE, nan |-> FALSE, trial |-> start,
               result |-> [kind |-> "none", state |-> NoState]]
    IN  IF ra.kind # "Ok" THEN ReturnAt(f0, ra)
        ELSE IF rb.kind # "Ok" THEN ReturnAt(f0, rb)
        ELSE LET ya == eval(event, ra.state)
                 yb == eval(event, rb.state)
                 f1 == [f0 EXCEPT !.ya = ya, !.yb = yb, !.yc = ya,
                                  !.nan = IsNaN(ya) \/ IsNaN(yb)]
             IN  IF FLe(FAbs(ya), FAbs(vp)) THEN ReturnAt(f1, ra)
                 ELSE IF FLe(FAbs(yb), FAbs(vp)) THEN ReturnAt(f1, rb)
                 ELSE f1

\* The trial point of one iteration of the loop.
fb_trial(f) ==
    LET s == trial_point(f.xa, f.ya, f.xb, f.yb, f.xc, f.yc)
    IN  IF bisect(s, f.xa, f.xb, f.xc, f.xd, f.flag, f.ep)
        THEN [s |-> FDiv(FAdd(f.xa, f.xb), F(2)), flag |-> TRUE]
        ELSE [s |-> s, flag |-> FALSE]

\* The rest of one iteration, given the result rs of self.at at the trial
\* point and the result rp of the second self.at (at xa or at xb).
fb_update(f, t, rs, rp) ==
    IF rs.kind # "Ok" THEN ReturnAt(f, rs)
    ELSE IF rp.kind # "Ok" THEN ReturnAt(f, rp)
    ELSE LET ys == eval(f.event, rs.state)
             yp == eval(f.event, rp.state)
             n == IF FLt(FMul(f.ya, ys), F(0))
                  THEN arrange(f.xa, yp, t.s, ys)
                  ELSE arrange(t.s, ys, f.xb, yp)
         IN  [f EXCEPT !.xd = f.xc, !.xc = f.xb, !.yc = f.yb,
                       !.xa = n.xa, !.ya = n.ya, !.xb = n.xb, !.yb = n.yb,
                       !.flag = t.flag, !.iter = f.iter + 1,
                       !.nan = f.nan \/ IsNaN(ys) \/ IsNaN(yp),
                       !.trial = f.start + Seconds(t.s)]

\* The trajectory find_bracketed searches: FBLen samples, finalized.
FBTraj == [i \in 1..FBLen |-> Sample((i - 1) * FBStride, i, "push")]
FBLast == (FBLen - 1) * FBStride
FBEpochs == (0 - 1)..(FBLast + 1)

InitFB ==
    /\ states = FBTraj
    /\ pushed = FBLen
    /\ finalized = TRUE
    /\ last_op = [op |-> "new"]
    /\ fb = [pc |-> "idle"]
    /\ fa = [pc |-> "idle"]
    /\ it = [pc |-> "idle"]
    /\ obj = [ty |-> "none"]

\* traj.find_bracketed(start, end, &event), up to the loop
FBCall ==
    /\ fb.pc = "idle"
    /\ \E start \in FBEpochs, end \in FBEpochs, event \in Events,
          vp \in 0..MaxValuePrecision, ep \in 0..MaxEpochPrecision :
         \E ra \in at(states, start), rb \in at(states, end) :
            fb' = fb_enter(start, end, event, F(vp), ep, ra, rb)
    /\ UNCHANGED <<states, pushed, finalized, last_op, fa, it, obj>>

\* One iteration of `for _ in 0..max_iter` on the trajectory s: the set of
\* the states of the call after it.
fb_step(s, f) ==
    IF FLt(FAbs(f.ya), FAbs(f.vp))
    THEN {ReturnAt(f, r) : r \in at(s, f.start + Seconds(f.xa))}
    ELSE IF FLt(FAbs(f.yb), FAbs(f.vp))
    THEN {ReturnAt(f, r) : r \in at(s, f.start + Seconds(f.xb))}
    ELSE IF has_converged(f.xa, f.xb, f.ep)
    THEN {Return(f, "EventNotFound", NoState)}
    ELSE LET t == fb_trial(f)
         IN  UNION {
               LET ys == IF rs.kind = "Ok" THEN eval(f.event, rs.state) ELSE NaN
                   x == IF FLt(FMul(f.ya, ys), F(0)) THEN f.xa ELSE f.xb
               IN  {fb_update(f, t, rs, rp) : rp \in at(s, f.start + Seconds(x))}
               : rs \in at(s, f.start + Seconds(t.s))}

\* one iteration of `for _ in 0..max_iter`
FBIter ==
    /\ fb.pc = "loop"
    /\ fb.iter < max_iter
    /\ fb' \in fb_step(states, fb)
    /\ UNCHANGED <<states, pushed, finalized, last_op, fa, it, obj>>

\* the loop ran max_iter times
FBMaxIter ==
    /\ fb.pc = "loop"
    /\ fb.iter = max_iter
    /\ fb' = Return(fb, "MaxIterReached", NoState)
    /\ UNCHANGED <<states, pushed, finalized, last_op, fa, it, obj>>

\* One pass of the loop for each call of the set fs that has not returned;
\* a call that ran max_iter iterations leaves the loop and returns.
fb_step_all(s, fs) ==
    UNION {IF f.pc = "done" THEN {f}
           ELSE IF f.iter >= max_iter THEN {Return(f, "MaxIterReached", NoState)}
           ELSE fb_step(s, f)
           : f \in fs}

\* n passes of the loop, by halves.
RECURSIVE fb_run(_, _, _)
fb_run(s, fs, n) ==
    IF n = 0 \/ \A f \in fs : f.pc = "done" THEN fs
    ELSE IF n = 1 THEN fb_step_all(s, fs)
    ELSE fb_run(s, fb_run(s, fs, n \div 2), n - (n \div 2))

\* The loop of find_bracketed run to its return: the set of final states.
fb_loop(s, f) == fb_run(s, {f}, max_iter + 1)

\* Traj::find_bracketed as one call: the set of its results [kind, state].
find_bracketed(s, start, end, event, vp, ep) ==
    UNION {UNION {{f.result : f \in fb_loop(s, fb_enter(start, end, event, vp, ep, ra, rb))}
                  : rb \in at(s, end)}
           : ra \in at(s, start)}

NextFB == FBCall \/ FBIter \/ FBMaxIter

SpecFB == InitFB /\ [][NextFB]_vars

\* ----------------------------------------------------------- properties

\* The last operation was an at() that went past the exact hit: the binary
\* search returned an insertion index strictly inside the store.
AtBuiltWindow ==
    /\ last_op.op = "at"
    /\ last_op.res.kind # "NoInterpolationData"
    /\ (last_op.res.kind = "Ok" => last_op.res.interpolated)

\* C1: after finalize(), whatever was pushed and in whatever order, the
\* stored samples are strictly increasing in epoch (no epoch is stored twice).
C1_FinalizeStrictlyIncreasing ==
    last_op.op = "finalize" => StrictlyIncreasing(states)

\* C2: finalize() is idempotent: a finalize() that directly follows a
\* finalize() leaves the sample sequence as it was.
C2_FinalizeIdempotent ==
    (last_op.op = "finalize" /\ last_op.prev = "finalize")
        => states = last_op.before

\* C3: a merge yields exactly the union of the epochs of its two operands,
\* whichever operand starts first, and len(A) + len(B) samples when the two
\* epoch sets are disjoint.
C3_MergeEpochUnion ==
    (last_op.op = "add" /\ ~last_op.panic)
        => /\ EpochsOf(states) = EpochsOf(last_op.self) \cup EpochsOf(last_op.other)
           /\ (EpochsOf(last_op.self) \cap EpochsOf(last_op.other) = {}
                 => Len(states) = Len(last_op.self) + Len(last_op.other))

\* C4: the merge of two finalized non-empty trajectories is finalized:
\* strictly increasing in epoch.
C4_MergeFinalized ==
    (/\ last_op.op = "add" /\ ~last_op.panic
     /\ last_op.self_finalized
     /\ StrictlyIncreasing(last_op.self) /\ StrictlyIncreasing(last_op.other))
        => StrictlyIncreasing(states)

\* C5: on a finalized store, at(s.epoch()) returns Ok with a copy of s, for
\* every stored sample s, without calling the interpolator.
C5_ExactHit ==
    (last_op.op = "at" /\ finalized)
        => \A i \in 1..Len(states) :
             states[i].epoch = last_op.res.epoch
                => /\ last_op.res.kind = "Ok"
                   /\ ~last_op.res.interpolated
                   /\ last_op.res.state = states[i]

\* C6: at(epoch) returns NoInterpolationData(epoch), with no panic and no
\* call of the interpolator, when the store is empty or epoch is strictly
\* before the first or strictly after the last epoch of a finalized store.
C6_OutOfRange ==
    (/\ last_op.op = "at"
     /\ \/ states = <<>>
        \/ /\ finalized
           /\ \/ last_op.res.epoch < states[1].epoch
              \/ last_op.res.epoch > states[Len(states)].epoch)
        => last_op.res = NoData(last_op.res.epoch)

C6_Witness ==
    /\ last_op.op = "at"
    /\ finalized
    /\ Len(states) >= 2
    /\ last_op.res.epoch > states[Len(states)].epoch
    /\ last_op.res.kind = "NoInterpolationData"

\* C7: on a finalized store of at least 2 samples, an in-range query that is
\* no stored epoch gets a window first_idx..last_idx with no underflow,
\* 0 <= first_idx < last_idx <= len, of length min(len, INTERPOLATION_SAMPLES),
\* that holds the two samples around the query (indices idx - 1 and idx).
C7_WindowValid ==
    (AtBuiltWindow /\ finalized /\ Len(states) >= 2)
        => /\ last_op.res.overflow = "none"
           /\ 0 <= last_op.res.first_idx
           /\ last_op.res.first_idx < last_op.res.last_idx
           /\ last_op.res.last_idx <= Len(states)
           /\ last_op.res.last_idx - last_op.res.first_idx
                 = Min(Len(states), INTERPOLATION_SAMPLES)
           /\ last_op.res.first_idx <= last_op.res.idx - 1
           /\ last_op.res.idx < last_op.res.last_idx

\* find_bracketed has returned.
FBDone == fb.pc = "done"

\* start <= end, both inside the span of the trajectory.
FBInSpan ==
    /\ fb.start <= fb.end
    /\ states[1].epoch <= fb.start
    /\ fb.end <= states[Len(states)].epoch

\* |y| <= |value_precision|
WithinPrecision(y) == FLe(FAbs(y), FAbs(fb.vp))

\* |y| < |value_precision|
StrictlyWithinPrecision(y) == FLt(FAbs(y), FAbs(fb.vp))

\* C8: when find_bracketed returns Ok(s), |event.eval(s)| <= |value_precision|
\* and, for a bracket start <= end, the epoch of s lies in [start, end],
\* whether s is an endpoint or a point of the solver's loop.
C8_OkWithinBracketAndPrecision ==
    (FBDone /\ fb.result.kind = "Ok")
        => /\ WithinPrecision(eval(fb.event, fb.result.state))
           /\ (fb.start <= fb.end
                 => /\ fb.start <= fb.result.state.epoch
                    /\ fb.result.state.epoch <= fb.end)

C8_Witness ==
    /\ FBDone
    /\ fb.result.kind = "Ok"
    /\ fb.iter >= 2
    /\ fb.start < fb.result.state.epoch
    /\ fb.result.state.epoch < fb.end

\* What C9 says of every call but the meaning of "within value_precision"
\* at EventNotFound: at most max_iter iterations, no
\* trial point outside [start, end], one of the three outcomes, Ok with a
\* point within value_precision, MaxIterReached after max_iter iterations.
C9_Common ==
    /\ fb.iter <= max_iter
    /\ fb.start <= fb.trial /\ fb.trial <= fb.end
    /\ (FBDone =>
          /\ fb.result.kind \in {"Ok", "EventNotFound", "MaxIterReached"}
          /\ (fb.result.kind = "Ok"
                => WithinPrecision(eval(fb.event, fb.result.state)))
          /\ (fb.result.kind = "EventNotFound"
                => has_converged(fb.xa, fb.xb, fb.ep))
          /\ (fb.result.kind = "MaxIterReached" => fb.iter = max_iter))

C10_NaNDistinctError ==
    (FBDone /\ fb.nan)
        => fb.result.kind \notin {"Ok", "EventNotFound", "MaxIterReached"}

\* The trajectory that starts earlier ends strictly before the other starts.
HasGap(a, b) ==
    LET a_first == a[1].epoch <= b[1].epoch
        earlier == IF a_first THEN a ELSE b
        later == IF a_first THEN b ELSE a
    IN  earlier[Len(earlier)].epoch < later[1].epoch

\* C16: a merge of two non-empty trajectories in epoch order warns of a gap
\* exactly when the one that starts earlier ends strictly before the other
\* starts (none when the spans touch or overlap), for both operand orders,
\* and with a gap the merge still returns the combined trajectory: the
\* samples of both operands.
C16_GapWarning ==
    (last_op.op = "add" /\ ~last_op.panic /\ IsSorted(last_op.self))
        => /\ last_op.warned = HasGap(last_op.self, last_op.other)
           /\ (last_op.warned
                 => /\ EpochsOf(states)
                        = EpochsOf(last_op.self) \cup EpochsOf(last_op.other)
                    /\ Len(states) = Len(last_op.self) + Len(last_op.other))

\* The warning alone, whatever the merge returns.
C16_WarningOnly ==
    (last_op.op = "add" /\ ~last_op.panic /\ IsSorted(last_op.self))
        => last_op.warned = HasGap(last_op.self, last_op.other)

\* ------------------------------------------------------------- to_frame
\* Largest epoch of the trajectories to_frame is run on.
TFMaxEpoch == 10

\* cosm.frame_chg(&state, new_frame): the same state, at the same epoch,
\* expressed in the new frame.
frame_chg(orbit) ==
    [epoch |-> orbit.epoch, id |-> orbit.id, src |-> orbit.src,
     frame |-> "new_frame"]

\* Spacecraft::with_orbit: the spacecraft `sc` with its orbit (and so its
\* epoch) replaced; `sc` names the sample the other fields come from.
with_orbit(sc, orbit) ==
    [epoch |-> orbit.epoch, id |-> orbit.id, src |-> orbit.src,
     frame |-> orbit.frame, sc |-> [epoch |-> sc.epoch, id |-> sc.id]]

\* What to_frame pushes for the state `st` while it is at the sample `cur`:
\* Traj<Orbit> pushes frame_chg(st), Traj<Spacecraft>
\* cur.with_orbit(frame_chg(st.orbit)).
converted(ty, cur, st) ==
    IF ty = "Orbit" THEN frame_chg(st) ELSE with_orbit(cur, frame_chg(st))

\* state_1.epoch() + (these_states[1].epoch() - state_1.epoch()) * 0.5, in
\* whole ticks.
midpoint(e0, e1) == e0 + ((e1 - e0) \div 2)

\* The loop of to_frame over self.states.windows(2), for the first n
\* windows: [panic, states, errors, frame_chgs], where `errors` are the
\* failures of at() that the loop logs.
RECURSIVE to_frame_windows(_, _, _)
to_frame_windows(s, ty, n) ==
    IF n = 0
    THEN {[panic |-> FALSE, states |-> <<>>, errors |-> <<>>, frame_chgs |-> 0]}
    ELSE UNION {
        IF p.panic THEN {p}
        ELSE LET cur == s[n]
                 state_1 == converted(ty, cur, cur)
                 next_epoch == midpoint(cur.epoch, s[n + 1].epoch)
             IN  {IF r.kind = "panic"
                  THEN [panic |-> TRUE, states |-> Append(p.states, state_1),
                        errors |-> p.errors, frame_chgs |-> p.frame_chgs + 1]
                  ELSE IF r.kind = "Ok"
                  THEN [panic |-> FALSE,
                        states |-> p.states
                                   \o <<state_1, converted(ty, cur, r.state)>>,
                        errors |-> p.errors, frame_chgs |-> p.frame_chgs + 2]
                  ELSE [panic |-> FALSE, states |-> Append(p.states, state_1),
                        errors |-> Append(p.errors,
                                          [kind |-> r.kind, epoch |-> next_epoch]),
                        frame_chgs |-> p.frame_chgs + 1]
                  : r \in at(s, next_epoch)}
        : p \in to_frame_windows(s, ty, n - 1)}

\* The rest of to_frame after the loop: the final state and finalize().
to_frame_finish(s, ty, p) ==
    IF p.panic
    THEN [kind |-> "panic", states |-> <<>>, errors |-> p.errors,
          frame_chgs |-> p.frame_chgs]
    ELSE [kind |-> "Ok",
          states |-> finalize(Append(p.states,
                                     converted(ty, s[Len(s)], s[Len(s)]))),
          errors |-> p.errors, frame_chgs |-> p.frame_chgs + 1]

\* to_frame without `if self.states.is_empty()`: no window, then self.last()
\* unwraps None and panics.
to_frame_no_empty_check(s, ty) ==
    IF s = <<>>
    THEN {[kind |-> "panic", states |-> <<>>, errors |-> <<>>, frame_chgs |-> 0]}
    ELSE {to_frame_finish(s, ty, p) : p \in to_frame_windows(s, ty, Len(s) - 1)}

\* Traj<Orbit>::to_frame and Traj<Spacecraft>::to_frame: the set of results.
to_frame(s, ty) ==
    IF s = <<>>
    THEN {[kind |-> "CreationError", states |-> <<>>, errors |-> <<>>,
           frame_chgs |-> 0]}
    ELSE {to_frame_finish(s, ty, p) : p \in to_frame_windows(s, ty, Len(s) - 1)}

\* The finalized trajectory whose epochs are the set E.
RECURSIVE TrajOf(_)
TrajOf(E) ==
    IF E = {} THEN <<>>
    ELSE LET m == CHOOSE x \in E : \A y \in E : y <= x
             r == TrajOf(E \ {m})
         IN  Append(r, Sample(m, Len(r) + 1, "push"))

InitTF ==
    /\ states \in {TrajOf(E) : E \in SUBSET (0..TFMaxEpoch)}
    /\ pushed = Len(states)
    /\ finalized = TRUE
    /\ last_op = [op |-> "new"]
    /\ fb = [pc |-> "idle"]
    /\ fa = [pc |-> "idle"]
    /\ it = [pc |-> "idle"]
    /\ obj = [ty |-> "none"]

\* traj.to_frame(new_frame, cosm)
ToFrame ==
    /\ \E ty \in {"Orbit", "Spacecraft"} : \E r \in to_frame(states, ty) :
         last_op' = [op |-> "to_frame", ty |-> ty, res |-> r]
    /\ UNCHANGED <<states, pushed, finalized, fb, fa, it, obj>>

NextTF == ToFrame

SpecTF == InitTF /\ [][NextTF]_vars

\* C17: to_frame of a trajectory with no samples returns CreationError, for
\* Traj<Orbit> and Traj<Spacecraft> alike: no panic (no first()/last() of an
\* empty Vec) and no frame conversion.
C17_EmptyToFrame ==
    (last_op.op = "to_frame" /\ states = <<>>)
        => /\ last_op.res.kind = "CreationError"
           /\ last_op.res.frame_chgs = 0

C17_Witness ==
    /\ last_op.op = "to_frame"
    /\ states = <<>>
    /\ last_op.ty = "Spacecraft"
    /\ last_op.res.kind = "CreationError"

\* Consecutive epochs are an even number of ticks apart: each midpoint is a
\* whole number of ticks, strictly between the two epochs.
EvenlySpaced(s) ==
    \A i \in 1..(Len(s) - 1) : (s[i + 1].epoch - s[i].epoch) % 2 = 0

\* The result of to_frame holds the conversion of every original sample and,
\* between two consecutive ones, the conversion of the state interpolated at
\* their midpoint: 2n - 1 samples, strictly increasing in epoch.
ToFrameComplete ==
    /\ last_op.res.kind = "Ok"
    /\ Len(last_op.res.states) = 2 * Len(states) - 1
    /\ StrictlyIncreasing(last_op.res.states)
    /\ \A i \in 1..Len(states) :
         /\ last_op.res.states[2 * i - 1].epoch = states[i].epoch
         /\ last_op.res.states[2 * i - 1].src = "push"
         /\ last_op.res.states[2 * i - 1].frame = "new_frame"
    /\ \A i \in 1..(Len(states) - 1) :
         /\ last_op.res.states[2 * i].epoch
               = midpoint(states[i].epoch, states[i + 1].epoch)
         /\ last_op.res.states[2 * i].src = "interp"
         /\ last_op.res.states[2 * i].frame = "new_frame"

\* C18: to_frame of a finalized trajectory of n >= 1 samples returns Ok with
\* a finalized trajectory of exactly 2n - 1 samples: every original sample
\* converted at its epoch and, for every two consecutive epochs, one sample
\* at their midpoint, interpolated by at() and then converted.
C18_ToFrameCount ==
    (last_op.op = "to_frame" /\ Len(states) >= 1 /\ EvenlySpaced(states))
        => ToFrameComplete

\* The same for the trajectories of at least INTERPOLATION_SAMPLES samples.
C18_FromSixSamples ==
    (/\ last_op.op = "to_frame"
     /\ Len(states) >= INTERPOLATION_SAMPLES
     /\ EvenlySpaced(states))
        => ToFrameComplete

\* ---------------------------------------------- the root bracket property

\* find_bracketed has returned from a call with the event f(t) = t - t0 and a
\* bracket start <= t0 <= end inside the span of the trajectory.
LinearBracketDone ==
    /\ FBDone
    /\ fb.event.kind = "linear"
    /\ fb.event.a = 1
    /\ FBInSpan
    /\ fb.start <= fb.event.c
    /\ fb.event.c <= fb.end

FALen == 6
FAStride == 400

\* Unit::Millisecond, Unit::Second and Unit::Minute in ticks.
Millisecond == 1
Second == 1000 * Millisecond
Minute == 60 * Second

FATraj == [i \in 1..FALen |-> Sample((i - 1) * FAStride, i, "push")]

\* A trajectory of one sample: its first and last epoch coincide.
FAOne == <<Sample(0, 1, "push")>>

\* A trajectory whose span is not a multiple of 100 ticks: the samples are
\* one tick farther apart.
FAOdd == [i \in 1..FALen |-> Sample((i - 1) * (FAStride + 1), i, "push")]

\* The events find_all and find_minmax are called with: t - c, a constant,
\* |t - c| - a (two roots: inside two sub-intervals of find_all, on the
\* boundaries of sub-intervals, at the first and the last epoch), 0 at the
\* epoch c alone and 5 + a * t elsewhere, and NaN everywhere.
FAEvents ==
    {[kind |-> "linear", a |-> 1, c |-> c] : c \in {1000, 1010}}
    \cup {[kind |-> "const", a |-> 0, c |-> 3]}
    \cup {[kind |-> "abs", a |-> a, c |-> 1000] : a \in {190, 200, 1000}}
    \cup {[kind |-> "dip", a |-> 0, c |-> 999], [kind |-> "dip", a |-> 1, c |-> 1999]}
    \cup {[kind |-> "nan", a |-> 0, c |-> 0]}

\* The events a trajectory is searched with: FAOdd with t - c for a root two
\* ticks before its last epoch, the other trajectories with FAEvents.
EventsOf(s) ==
    IF s = FAOdd
    THEN {[kind |-> "linear", a |-> 1, c |-> s[Len(s)].epoch - 2]}
    ELSE FAEvents

\* S::zeros(): the default state, at an epoch before every trajectory.
zeros == Sample(0 - Minute, 0, "zeros")

\* TimeSeries::inclusive(start, end, step): start + k * step up to end.
time_series(start, end, step) ==
    {start + k * step : k \in 0..((end - start) \div step)}

\* Vec::dedup() that removes nothing.
dedup_none(s) == s

\* Vec::dedup(): an element equal to the one retained before it is removed.
RECURSIVE dedup(_)
dedup(s) ==
    IF Len(s) <= 1 THEN s
    ELSE LET r == dedup(SubSeq(s, 1, Len(s) - 1))
             x == s[Len(s)]
         IN  IF x = r[Len(r)] THEN r ELSE Append(r, x)

\* dedup() that does nothing: the sorted list is returned as collected.
sort_dedup_none(collected) == sort_by_key(collected)

\* states.sort_by(epoch); states.dedup()
sort_dedup(collected) == dedup(sort_by_key(collected))

\* The loop of find_minmax over the received (this_eval, state) pairs.
RECURSIVE minmax_fold(_)
minmax_fold(evald_states) ==
    IF evald_states = <<>>
    THEN [min_val |-> Inf(1), max_val |-> Inf(0 - 1),
          min_state |-> zeros, max_state |-> zeros]
    ELSE LET acc == minmax_fold(SubSeq(evald_states, 1, Len(evald_states) - 1))
             x == evald_states[Len(evald_states)]
             lower == FLt(x.eval, acc.min_val)
             higher == FGt(x.eval, acc.max_val)
         IN  [min_val |-> IF lower THEN x.eval ELSE acc.min_val,
              min_state |-> IF lower THEN x.state ELSE acc.min_state,
              max_val |-> IF higher THEN x.eval ELSE acc.max_val,
              max_state |-> IF higher THEN x.state ELSE acc.max_state]

\* The window of one millisecond around the epoch of an extremum, kept
\* inside the span of the trajectory s.
window_around(s, epoch) ==
    [lo |-> IF epoch - 1 * Millisecond < s[1].epoch
            THEN s[1].epoch ELSE epoch - 1 * Millisecond,
     hi |-> IF epoch + 1 * Millisecond > s[Len(s)].epoch
            THEN s[Len(s)].epoch ELSE epoch + 1 * Millisecond]

\* What find_all returns.
FAResult(kind, sts, dropped) == [kind |-> kind, states |-> sts, dropped |-> dropped]

\* The fallback without its last test: when both searches fail the empty
\* list is sorted and returned.
fallback_no_empty_check(s, event, vp, ep, min_event, max_event) ==
    LET wmin == window_around(s, min_event.epoch)
        wmax == window_around(s, max_event.epoch)
    IN  UNION {
          {LET found == (IF r1.kind = "Ok" THEN <<r1.state>> ELSE <<>>)
                        \o (IF r2.kind = "Ok" THEN <<r2.state>> ELSE <<>>)
               dropped == (IF r1.kind = "Ok" THEN <<>> ELSE <<r1.kind>>)
                          \o (IF r2.kind = "Ok" THEN <<>> ELSE <<r2.kind>>)
           IN  FAResult("Ok", sort_dedup(found), dropped)
           : r2 \in find_bracketed(s, wmax.lo, wmax.hi, event, vp, ep)}
          : r1 \in find_bracketed(s, wmin.lo, wmin.hi, event, vp, ep)}

\* The fallback of find_all once find_minmax returned (min_event,
\* max_event): the two searches and the return.  `dropped` lists the failed
\* searches whose error the `if let Ok` discards.
fallback(s, event, vp, ep, min_event, max_event) ==
    LET wmin == window_around(s, min_event.epoch)
        wmax == window_around(s, max_event.epoch)
    IN  UNION {
          {LET found == (IF r1.kind = "Ok" THEN <<r1.state>> ELSE <<>>)
                        \o (IF r2.kind = "Ok" THEN <<r2.state>> ELSE <<>>)
               dropped == (IF r1.kind = "Ok" THEN <<>> ELSE <<r1.kind>>)
                          \o (IF r2.kind = "Ok" THEN <<>> ELSE <<r2.kind>>)
           IN  IF found = <<>>
               THEN FAResult("EventNotFound", <<>>, dropped)
               ELSE FAResult("Ok", sort_dedup(found), dropped)
           : r2 \in find_bracketed(s, wmax.lo, wmax.hi, event, vp, ep)}
          : r1 \in find_bracketed(s, wmin.lo, wmin.hi, event, vp, ep)}

\* The state of a call of find_all or find_minmax that has not started its
\* tasks: `tasks` are the epochs of the fan-out of find_all, `oks` what each
\* can send, `fails` those that can send nothing, `panics` those that can
\* panic, `sent` those that have sent, `channel` what the receiver holds;
\* `grid`, `mm_sent` and `mm_channel` are the same for find_minmax.
FAIdle(op, event, vp, ep) ==
    [pc |-> "idle", op |-> op, event |-> event, vp |-> vp, ep |-> ep,
     tasks |-> {}, oks |-> {}, fails |-> {}, panics |-> {}, sent |-> {},
     channel |-> <<>>, grid |-> {}, mm_sent |-> {}, mm_channel |-> <<>>,
     minmax |-> minmax_fold(<<>>),
     result |-> FAResult("none", <<>>, <<>>)]

\* return <result>, from find_all or find_minmax
FAReturn(f, result) == [f EXCEPT !.pc = "done", !.result = result]

\* find_all up to the start of its tasks: each task is a find_bracketed on
\* [epoch, epoch + heuristic], a pure function of the trajectory.
find_all_enter(s, event, vp, ep) ==
    LET start_epoch == s[1].epoch
        end_epoch == s[Len(s)].epoch
        heuristic == (end_epoch - start_epoch) \div 100
        epochs == time_series(start_epoch, end_epoch, heuristic)
        outcomes == UNION {{[task |-> e, r |-> r]
                            : r \in find_bracketed(s, e, e + heuristic, event, vp, ep)}
                           : e \in epochs}
        f == FAIdle("find_all", event, vp, ep)
    IN  IF start_epoch = end_epoch
        THEN FAReturn(f, FAResult("EventNotFound", <<>>, <<>>))
        ELSE [f EXCEPT
                !.pc = "fanout",
                !.tasks = epochs,
                !.oks = {[task |-> o.task, state |-> o.r.state]
                         : o \in {x \in outcomes : x.r.kind = "Ok"}},
                !.fails = {o.task : o \in {x \in outcomes :
                                             x.r.kind \notin {"Ok", "panic"}}},
                !.panics = {o.task : o \in {x \in outcomes : x.r.kind = "panic"}}]

\* receiver.iter().collect() of find_all and what follows it, once every
\* task has ended: the sorted list, or the start of find_minmax.
find_all_collect(s, f) ==
    LET unsent == f.tasks \ f.sent
    IN  (IF unsent \cap f.panics # {}
         THEN {FAReturn(f, FAResult("panic", <<>>, <<>>))} ELSE {})
        \cup
        (IF ~(unsent \subseteq f.fails) THEN {}
         ELSE IF f.channel # <<>>
         THEN {FAReturn(f, FAResult("Ok", sort_dedup(f.channel), <<>>))}
         ELSE {[f EXCEPT !.pc = "minmax",
                         !.grid = time_series(s[1].epoch, s[Len(s)].epoch,
                                              1 * Second)]})

\* find_minmax up to the start of its tasks, one per epoch of the grid.
find_minmax_enter(s, event, precision) ==
    [FAIdle("find_minmax", event, F(0), 0) EXCEPT
        !.pc = "minmax",
        !.grid = time_series(s[1].epoch, s[Len(s)].epoch, 1 * precision)]

\* One task of find_minmax: self.at(epoch).unwrap(), eval, send.
find_minmax_task(s, f, epoch) ==
    {IF r.kind = "Ok"
     THEN [f EXCEPT !.mm_sent = f.mm_sent \cup {epoch},
                    !.mm_channel = Append(f.mm_channel,
                                          [eval |-> eval(f.event, r.state),
                                           state |-> r.state])]
     ELSE FAReturn(f, [kind |-> "panic", min |-> zeros, max |-> zeros])
     : r \in at(s, epoch)}

\* receiver.iter().collect() of find_minmax and what follows it: its return
\* and, inside find_all, the fallback.
find_minmax_collect(s, f) ==
    LET m == minmax_fold(f.mm_channel)
        g == [f EXCEPT !.minmax = m]
    IN  IF f.op = "find_minmax"
        THEN {FAReturn(g, [kind |-> "Ok", min |-> m.min_state,
                           max |-> m.max_state])}
        ELSE {FAReturn(g, r)
              : r \in fallback(s, f.event, f.vp, f.ep, m.min_state, m.max_state)}

InitFA ==
    /\ states \in {FATraj, FAOne, FAOdd}
    /\ pushed = Len(states)
    /\ finalized = TRUE
    /\ last_op = [op |-> "new"]
    /\ fb = [pc |-> "idle"]
    /\ fa = [pc |-> "idle"]
    /\ it = [pc |-> "idle"]
    /\ obj = [ty |-> "none"]

\* traj.find_all(&event), up to the start of the tasks
FACall ==
    /\ fa.pc = "idle"
    /\ \E event \in EventsOf(states), vp \in 0..MaxValuePrecision,
          ep \in 0..MaxEpochPrecision :
         fa' = find_all_enter(states, event, F(vp), ep)
    /\ UNCHANGED <<states, pushed, finalized, last_op, fb, it, obj>>

\* a task of find_all whose find_bracketed returned Ok sends its state
FASend ==
    /\ fa.pc = "fanout"
    /\ \E o \in fa.oks :
         /\ o.task \notin fa.sent
         /\ fa' = [fa EXCEPT !.sent = fa.sent \cup {o.task},
                             !.channel = Append(fa.channel, o.state)]
    /\ UNCHANGED <<states, pushed, finalized, last_op, fb, it, obj>>

\* the other tasks of find_all have ended: collect, then return or fall back
FACollect ==
    /\ fa.pc = "fanout"
    /\ fa' \in find_all_collect(states, fa)
    /\ UNCHANGED <<states, pushed, finalized, last_op, fb, it, obj>>

\* traj.find_minmax(&event, precision), up to the start of the tasks
FMCall ==
    /\ fa.pc = "idle"
    /\ \E event \in EventsOf(states), precision \in {Second, Minute} :
         fa' = find_minmax_enter(states, event, precision)
    /\ UNCHANGED <<states, pushed, finalized, last_op, fb, it, obj>>

\* a task of find_minmax ends
FMSend ==
    /\ fa.pc = "minmax"
    /\ \E epoch \in fa.grid \ fa.mm_sent :
         fa' \in find_minmax_task(states, fa, epoch)
    /\ UNCHANGED <<states, pushed, finalized, last_op, fb, it, obj>>

\* every task of find_minmax has ended: collect, fold, return
FMCollect ==
    /\ fa.pc = "minmax"
    /\ fa.mm_sent = fa.grid
    /\ fa' \in find_minmax_collect(states, fa)
    /\ UNCHANGED <<states, pushed, finalized, last_op, fb, it, obj>>

NextFA == FACall \/ FASend \/ FACollect \/ FMCall \/ FMSend \/ FMCollect

SpecFA == InitFA /\ [][NextFA]_vars

\* ------------------------------------ properties of find_all, find_minmax

FADone(op) == fa.pc = "done" /\ fa.op = op

\* The elements of the set S of records in the order of their field `task`.
RECURSIVE InTaskOrder(_)
InTaskOrder(S) ==
    IF S = {} THEN <<>>
    ELSE LET m == CHOOSE x \in S : \A y \in S : y.task <= x.task
         IN  Append(InTaskOrder(S \ {m}), m)

\* What the receiver of find_all holds when the tasks send in epoch order.
ChannelInOrder ==
    LET o == InTaskOrder(fa.oks)
    IN  [i \in 1..Len(o) |-> o[i].state]

\* What the receiver of find_minmax holds when the tasks send in epoch order.
MinMaxChannelInOrder ==
    LET o == InTaskOrder(UNION {{[task |-> e, r |-> r] : r \in at(states, e)}
                                : e \in fa.grid})
    IN  [i \in 1..Len(o) |-> [eval |-> eval(fa.event, o[i].r.state),
                              state |-> o[i].r.state]]

\* The results of find_all when every task sends in epoch order.
FindAllInOrder ==
    IF states[1].epoch = states[Len(states)].epoch
    THEN {FAResult("EventNotFound", <<>>, <<>>)}
    ELSE IF fa.oks # {}
    THEN {FAResult("Ok", sort_dedup(ChannelInOrder), <<>>)}
    ELSE LET m == minmax_fold(MinMaxChannelInOrder)
         IN  fallback(states, fa.event, fa.vp, fa.ep, m.min_state, m.max_state)

\* C11: a list returned by find_all is sorted and de-duplicated by epoch:
\* consecutive states have strictly increasing epochs, also when two
\* adjacent sub-intervals both sent the state at their shared boundary.
C11_FindAllStrictlyIncreasing ==
    (FADone("find_all") /\ fa.result.kind = "Ok")
        => StrictlyIncreasing(fa.result.states)

\* Two tasks sent the same state, out of epoch order, and find_all returned
\* several states.
C11_Witness ==
    /\ FADone("find_all")
    /\ fa.result.kind = "Ok"
    /\ Len(fa.result.states) >= 2
    /\ Len(fa.channel) > Len(fa.result.states)
    /\ ~IsSorted(fa.channel)

\* C12: for a given trajectory and event, find_all returns the same result
\* (the Ok list or the error) in whatever order its tasks and those of the
\* find_minmax of its fallback complete: the result of the run where they
\* complete in epoch order.
C12_FindAllOrderIndependent ==
    FADone("find_all") => fa.result \in FindAllInOrder

\* C13: for a given trajectory and event, find_minmax returns the same
\* (min, max) pair in whatever order its tasks complete, ties for the
\* minimum or the maximum included: the pair of the run where they complete
\* in epoch order.
C13_MinMaxOrderIndependent ==
    FADone("find_minmax")
        => LET m == minmax_fold(MinMaxChannelInOrder)
           IN  /\ fa.result.min = m.min_state
               /\ fa.result.max = m.max_state

GridStates == UNION {{r.state : r \in {x \in at(states, e) : x.kind = "Ok"}}
                     : e \in fa.grid}

\* min and max are states of the grid, neither is S::zeros(), and the event
\* of every state of the grid lies between theirs.
MinMaxOfGrid ==
    /\ fa.result.kind = "Ok"
    /\ fa.result.min \in GridStates
    /\ fa.result.max \in GridStates
    /\ fa.result.min # zeros
    /\ fa.result.max # zeros
    /\ \A g \in GridStates :
         /\ FLe(eval(fa.event, fa.result.min), eval(fa.event, g))
         /\ FLe(eval(fa.event, g), eval(fa.event, fa.result.max))

\* C15: find_minmax(event, step) returns Ok((min, max)), both rebuilt by
\* at() at epochs first.epoch() + k * step of the span, with
\* event(min) <= event(g) <= event(max) for every state g of the grid, and
\* neither is the default state S::zeros() on a non-empty trajectory.
C15_MinMaxOfGrid ==
    (FADone("find_minmax") /\ states # <<>>) => MinMaxOfGrid

\* The same for the events that are a real number at every state of the grid.
C15_RealValuedEvent ==
    (FADone("find_minmax") /\ \A g \in GridStates : ~IsNaN(eval(fa.event, g)))
        => MinMaxOfGrid

\* C19: outside the fan-out of find_all no error is discarded: when a
\* find_bracketed of the fallback of find_all fails, find_all does not
\* return Ok.
C19_NoErrorDropped ==
    (FADone("find_all") /\ fa.result.kind = "Ok")
        => fa.result.dropped = <<>>

\* The same for to_frame: when an at() of its loop fails, to_frame does not
\* return Ok.
C19_ToFrameNoErrorDropped ==
    (last_op.op = "to_frame" /\ last_op.res.kind = "Ok")
        => last_op.res.errors = <<>>

\* ------------------------------------------- every, every_between (iterator)

\* the largest step of an iterator, in ticks
MaxStep == 4

\* The trajectory the iterators walk: ITLen samples ITStride ticks apart,
\* the first one at epoch 0.
ITLen == 6
ITStride == 3

ITTraj == [i \in 1..ITLen |-> Sample((i - 1) * ITStride, i, "push")]
ITEpochs == (0 - 1)..((ITLen - 1) * ITStride + 1)

\* TimeSeries::inclusive(start, end, step): the series before its first item
inclusive(start, end, step) == [cur |-> start - step, end |-> end, step |-> step]

\* TimeSeries::next() of a series that stops before end instead of after it
ts_next_exclusive(ts) ==
    IF ts.cur + ts.step >= ts.end THEN [some |-> FALSE, ts |-> ts]
    ELSE [some |-> TRUE, ts |-> [ts EXCEPT !.cur = ts.cur + ts.step]]

\* TimeSeries::next() of an inclusive series: the next epoch, unless it is
\* after end
ts_next(ts) ==
    IF ts.cur + ts.step > ts.end THEN [some |-> FALSE, ts |-> ts]
    ELSE [some |-> TRUE, ts |-> [ts EXCEPT !.cur = ts.cur + ts.step]]

\* traj.every_between(step, start, end): an iterator that yielded nothing yet
every_between(op, step, start, end) ==
    [pc |-> "iter", op |-> op, start |-> start, end |-> end, step |-> step,
     time_series |-> inclusive(start, end, step), yielded |-> <<>>]

\* traj.every(step): first() and last() unwrap, so an empty store panics
every(s, step) ==
    IF Len(s) = 0 THEN [pc |-> "panic", op |-> "every"]
    ELSE every_between("every", step, s[1].epoch, s[Len(s)].epoch)

\* TrajIterator::next(): the next epoch of the time series is handed to at(),
\* whose outcome is the item; the iterator ends with the time series
traj_it_next(s, i) ==
    LET n == ts_next(i.time_series)
    IN  IF ~n.some THEN {[i EXCEPT !.pc = "done"]}
        ELSE {[i EXCEPT !.time_series = n.ts,
                        !.yielded = Append(i.yielded, r)]
              : r \in at(s, n.ts.cur)}

InitIT ==
    /\ states \in {ITTraj, <<>>}
    /\ pushed = Len(states)
    /\ finalized = TRUE
    /\ last_op = [op |-> "new"]
    /\ fb = [pc |-> "idle"]
    /\ fa = [pc |-> "idle"]
    /\ it = [pc |-> "idle"]
    /\ obj = [ty |-> "none"]

\* let it = traj.every(step)
Every ==
    /\ it.pc = "idle"
    /\ \E step \in 1..MaxStep : it' = every(states, step)
    /\ UNCHANGED <<states, pushed, finalized, last_op, fb, fa, obj>>

\* let it = traj.every_between(step, start, end)
EveryBetween ==
    /\ it.pc = "idle"
    /\ \E step \in 1..MaxStep, start \in ITEpochs, end \in ITEpochs :
         it' = every_between("every_between", step, start, end)
    /\ UNCHANGED <<states, pushed, finalized, last_op, fb, fa, obj>>

\* it.next()
ItNext ==
    /\ it.pc = "iter"
    /\ it' \in traj_it_next(states, it)
    /\ UNCHANGED <<states, pushed, finalized, last_op, fb, fa, obj>>

NextIT == Every \/ EveryBetween \/ ItNext

SpecIT == InitIT /\ [][NextIT]_vars

\* ---------------------------------------------- properties of the iterator

\* an iterator over a part of the span of the store ran to its end
ItDoneInSpan ==
    /\ it.pc = "done"
    /\ Len(states) > 0
    /\ states[1].epoch <= it.start
    /\ it.start <= it.end
    /\ it.end <= states[Len(states)].epoch

\* the i-th item is what at() returns for start + (i - 1) * step
ItemsFromAt ==
    \A i \in 1..Len(it.yielded) :
        /\ it.yielded[i].kind = "Ok"
        /\ it.yielded[i] \in at(states, it.start + (i - 1) * it.step)

SpacecraftToFrame ==
    /\ last_op.op = "to_frame"
    /\ last_op.ty = "Spacecraft"
    /\ last_op.res.kind = "Ok"
    /\ Len(states) >= INTERPOLATION_SAMPLES

\* the sample of the source trajectory the fields of `sample` other than the
\* orbit come from
FieldsOf(sample) == [epoch |-> sample.epoch, id |-> sample.id]

\* C28: every sample of the result of Traj<Spacecraft>::to_frame is the
\* at(epoch) sample of the source with its orbit alone replaced: the fuel
\* mass of a midpoint sample is the interpolated one, not that of the stored
\* sample before it.
C28_FieldsFromAt ==
    SpacecraftToFrame =>
        \A i \in 1..Len(last_op.res.states) :
            LET o == last_op.res.states[i]
            IN  /\ o.frame = "new_frame"
                /\ \E r \in at(states, o.epoch) :
                       r.kind = "Ok" /\ o.sc = FieldsOf(r.state)

\* what holds instead: the fields other than the orbit are those of the last
\* stored sample that is not after the epoch of the output sample
C28_FieldsFromPreceding ==
    SpacecraftToFrame =>
        \A i \in 1..Len(last_op.res.states) :
            LET o == last_op.res.states[i]
            IN  /\ o.frame = "new_frame"
                /\ \E j \in 1..Len(states) :
                       /\ o.sc = FieldsOf(states[j])
                       /\ states[j].epoch <= o.epoch
                       /\ (j < Len(states) => o.epoch < states[j + 1].epoch)

\* --------------------------- properties of find_bracketed: the bracket

\* the event has opposite signs at start and at end, and at least one
\* iteration of the loop ran
BracketedIter ==
    /\ fb.pc # "idle"
    /\ FBInSpan
    /\ fb.iter >= 1
    /\ FLt(FMul(eval(fb.event, Sample(fb.start, 0, "query")),
                eval(fb.event, Sample(fb.end, 0, "query"))), F(0))

\* b has the smaller absolute event value and a, b bracket a change of sign
ArrangedBracket ==
    /\ FLe(FAbs(fb.yb), FAbs(fb.ya))
    /\ FLe(FMul(fb.ya, fb.yb), F(0))

\* C26: if the event has opposite signs at start and at end, then after
\* every iteration of the solver |y_b| <= |y_a| and y_a * y_b <= 0.
C26_BracketArranged == BracketedIter => ArrangedBracket

\* the same, for the calls in which no evaluation of the event gave NaN
C26_RealValued == (BracketedIter /\ ~fb.nan) => ArrangedBracket

\* a call whose loop ran three times on a real-valued event and swapped a
\* and b at least once: b is no longer the end of the bracket
C26_Witness ==
    /\ BracketedIter
    /\ ~fb.nan
    /\ fb.iter >= 3
    /\ fb.pc = "loop"
    /\ FLt(fb.xb, fb.xa)
    /\ ~(fb.ya = fb.yb)

\* ------------------------------------ properties of at(): the anchor

\* the items of the iterator that at() interpolated
Interpolated ==
    IF it.pc \notin {"iter", "done"} THEN {}
    ELSE {i \in 1..Len(it.yielded) :
            it.yielded[i].kind = "Ok" /\ it.yielded[i].interpolated}

\* the stored samples next to the epoch, before and after it
Bracketing(s, epoch) ==
    {s[i] : i \in {j \in 1..Len(s) :
                     \/ (s[j].epoch < epoch /\ (j = Len(s) \/ s[j + 1].epoch > epoch))
                     \/ (s[j].epoch > epoch /\ (j = 1 \/ s[j - 1].epoch < epoch))}}

\* C25: when at() interpolates, the anchor is the one of the two stored
\* samples that bracket the epoch whose epoch is nearest to it.
C25_AnchorNearest ==
    \A i \in Interpolated :
        LET r == it.yielded[i]
        IN  /\ r.anchor \in Bracketing(states, r.epoch)
            /\ \A b \in Bracketing(states, r.epoch) :
                   AbsInt(r.anchor.epoch - r.epoch) <= AbsInt(b.epoch - r.epoch)

\* what holds instead: the anchor is the stored sample that follows the epoch
C25_AnchorFollows ==
    \A i \in Interpolated :
        LET r == it.yielded[i]
        IN  /\ r.anchor \in Bracketing(states, r.epoch)
            /\ r.anchor.epoch > r.epoch
            /\ r.state.id = r.anchor.id

\* ------------------------------- properties of find_all: the roots it finds

\* the epochs of the span at which the event is zero; for t - c and
\* |t - c| - a each of them is a change of sign
ZeroCrossings(s, event) ==
    {e \in s[1].epoch..s[Len(s)].epoch : eval(event, Sample(e, 0, "query")) = F(0)}

\* the sub-intervals [e, e + heuristic] find_all hands to find_bracketed
SubIntervals(s) ==
    LET heuristic == (s[Len(s)].epoch - s[1].epoch) \div 100
    IN  {[start |-> e, end |-> e + heuristic]
         : e \in time_series(s[1].epoch, s[Len(s)].epoch, heuristic)}

\* the sub-intervals whose two ends at() can serve
Searched(s) ==
    {i \in SubIntervals(s) : s[1].epoch <= i.start /\ i.end <= s[Len(s)].epoch}

\* find_all returned for an event with roots more than the heuristic apart,
\* no two of them in one sub-interval, each in a sub-interval that is searched
SeparatedCrossings ==
    /\ FADone("find_all")
    /\ Len(states) > 1
    /\ fa.event.kind \in {"linear", "abs"}
    /\ LET Z == ZeroCrossings(states, fa.event)
           h == (states[Len(states)].epoch - states[1].epoch) \div 100
       IN  /\ Z # {}
           /\ \A c \in Z, d \in Z : c # d => AbsInt(c - d) > h
           /\ \A i \in SubIntervals(states) :
                  Cardinality({c \in Z : i.start <= c /\ c <= i.end}) <= 1
           /\ \A c \in Z : \E i \in Searched(states) : i.start <= c /\ c <= i.end

\* the result holds one state for each root, within `within` ticks of it
OneStatePerCrossing(within) ==
    LET Z == ZeroCrossings(states, fa.event)
        r == fa.result
    IN  /\ r.kind = "Ok"
        /\ Len(r.states) = Cardinality(Z)
        /\ \A c \in Z : \E i \in 1..Len(r.states) :
               AbsInt(r.states[i].epoch - c) <= within

C22_InsideWitness ==
    /\ SeparatedCrossings
    /\ Val(fa.vp) >= 1
    /\ \A c \in ZeroCrossings(states, fa.event) :
           \A i \in SubIntervals(states) : c # i.start /\ c # i.end
    /\ fa.result.kind = "Ok"
    /\ Len(fa.result.states) = 2

\* C27: the sub-intervals find_all searches cover the span: every epoch
\* between the first and the last one lies in a sub-interval [e, e + heuristic]
\* of a task whose two ends are inside the span.
C27_SubIntervalsCover ==
    (fa.pc # "idle" /\ fa.op = "find_all" /\ Len(states) > 1) =>
        LET first == states[1].epoch
            last == states[Len(states)].epoch
            heuristic == (last - first) \div 100
            searched == UNION {e..(e + heuristic)
                               : e \in {x \in fa.tasks : /\ first <= x
                                                         /\ x + heuristic <= last}}
        IN  (first..last) \subseteq searched

\* the same, for the spans that are a multiple of 100 ticks
C27_SpanMultipleOf100 ==
    (fa.pc # "idle" /\ fa.op = "find_all" /\ Len(states) > 1
        /\ (states[Len(states)].epoch - states[1].epoch) % 100 = 0) =>
        LET searched == UNION {i.start..i.end
                               : i \in {x \in Searched(states) : x.start \in fa.tasks}}
        IN  (states[1].epoch..states[Len(states)].epoch) \subseteq searched

\* a root in the part of the span that no task searches is not found
C27_RootInTailMissed ==
    (FADone("find_all") /\ states = FAOdd) => fa.result.kind = "EventNotFound"

\* ------------------------------------- TrackingArc (src/od/msr/arc.rs)

\* the largest number of measurements of an arc, and their latest epoch
MaxMsr == 4
MaxMsrEpoch == 4

\* Option<Duration>
None == [some |-> FALSE]
Some(d) == [some |-> TRUE, value |-> d]

\* TrackingArc::measurements, "a chronological list": the epochs of the
\* measurements, simultaneous ones (of two devices) included
RECURSIVE Chronological(_, _)
Chronological(lo, n) ==
    IF n = 0 THEN {<<>>}
    ELSE UNION {{<<e>> \o rest : rest \in Chronological(e, n - 1)}
                : e \in lo..MaxMsrEpoch}

Arcs == UNION {Chronological(0, n) : n \in 0..MaxMsr}

\* the loop of min_duration_sep over the windows i, i + 1 from the second one
RECURSIVE min_interval_from(_, _, _)
min_interval_from(m, i, min_interval) ==
    IF i + 1 > Len(m) THEN min_interval
    ELSE LET interval == m[i + 1] - m[i]
         IN  min_interval_from(m, i + 1,
                 IF interval # 0 /\ interval < min_interval
                 THEN interval ELSE min_interval)

\* TrackingArc::min_duration_sep
min_duration_sep(m) ==
    IF Len(m) < 2 THEN None
    ELSE Some(min_interval_from(m, 2, m[2] - m[1]))

\* TrackingArc::filter_by_epoch(lo..=hi)
filter_by_epoch(m, lo, hi) == SelectSeq(m, LAMBDA e : lo <= e /\ e <= hi)

\* TrackingArc::filter_by_offset(lo..=hi): offsets from the first measurement
filter_by_offset(m, lo, hi) ==
    IF Len(m) = 0 THEN <<>>
    ELSE SelectSeq(m, LAMBDA e : lo <= e - m[1] /\ e - m[1] <= hi)

InitArc ==
    /\ states = <<>>
    /\ pushed = 0
    /\ finalized = FALSE
    /\ last_op = [op |-> "new"]
    /\ fb = [pc |-> "idle"]
    /\ fa = [pc |-> "idle"]
    /\ it = [pc |-> "idle"]
    /\ obj \in {[ty |-> "arc", measurements |-> m] : m \in Arcs}

\* arc.min_duration_sep()
MinDurationSep ==
    /\ obj.ty = "arc"
    /\ last_op' = [op |-> "min_duration_sep",
                   res |-> min_duration_sep(obj.measurements)]
    /\ UNCHANGED <<states, pushed, finalized, fb, fa, it, obj>>

\* arc = arc.filter_by_epoch(lo..=hi)
FilterByEpoch ==
    /\ obj.ty = "arc"
    /\ \E lo \in 0..MaxMsrEpoch, hi \in 0..MaxMsrEpoch :
         /\ obj' = [obj EXCEPT !.measurements = filter_by_epoch(@, lo, hi)]
         /\ last_op' = [op |-> "filter_by_epoch", lo |-> lo, hi |-> hi]
    /\ UNCHANGED <<states, pushed, finalized, fb, fa, it>>

\* arc = arc.filter_by_offset(lo..=hi)
FilterByOffset ==
    /\ obj.ty = "arc"
    /\ \E lo \in 0..MaxMsrEpoch, hi \in 0..MaxMsrEpoch :
         /\ obj' = [obj EXCEPT !.measurements = filter_by_offset(@, lo, hi)]
         /\ last_op' = [op |-> "filter_by_offset", lo |-> lo, hi |-> hi]
    /\ UNCHANGED <<states, pushed, finalized, fb, fa, it>>

NextArc == MinDurationSep \/ FilterByEpoch \/ FilterByOffset

SpecArc == InitArc /\ [][NextArc]_vars

\* --------------------------------------------- properties of TrackingArc

\* the separations of subsequent measurements that are not zero
NonZeroSeps(m) == {m[i + 1] - m[i] : i \in 1..(Len(m) - 1)} \ {0}

\* C23: min_duration_sep returns None for fewer than two measurements, and
\* otherwise the least separation of two subsequent measurements, the zero
\* separations of every pair (the first one included) being skipped.
C23_MinDurationSep ==
    last_op.op = "min_duration_sep" =>
        LET m == obj.measurements
        IN  /\ (Len(m) < 2 <=> ~last_op.res.some)
            /\ (Len(m) >= 2 /\ NonZeroSeps(m) # {}) =>
                   /\ last_op.res.value \in NonZeroSeps(m)
                   /\ \A d \in NonZeroSeps(m) : last_op.res.value <= d

\* the same, for the arcs whose first two measurements are not simultaneous
C23_FirstPairApart ==
    (last_op.op = "min_duration_sep" /\ Len(obj.measurements) >= 2
        /\ obj.measurements[2] # obj.measurements[1]) =>
        /\ last_op.res.some
        /\ last_op.res.value \in NonZeroSeps(obj.measurements)
        /\ \A d \in NonZeroSeps(obj.measurements) : last_op.res.value <= d

\* --------------------------------- Polynomial (src/polyfit/polynomial.rs)
\* A polynomial is the sequence of its coefficients, the one of power 0
\* first; the coefficients of the model are small integers, on which the
\* f64 arithmetic of the code is exact.

\* the largest SIZE of the two factors, the largest coefficient (the least
\* one is -1) and the largest absolute value of a point of evaluation
MaxSize1 == 3
MaxSize2 == 2
MaxCoef == 1
MaxX == 2

Polynomials(max_size) ==
    UNION {[1..size -> (0 - 1)..MaxCoef] : size \in 1..max_size}

\* Polynomial::<SIZE>::zeros()
poly_zeros(size) == [i \in 1..size |-> 0]

\* impl Mul<Polynomial<SIZE>> for f64
scalar_mul(val, rhs) == [i \in 1..Len(rhs) |-> rhs[i] * val]

\* the inner loop of multiply with `=` in the place of `+=`
RECURSIVE mul_inner_assign(_, _, _, _)
mul_inner_assign(rslt, if_was_scalar, exponent, pos) ==
    IF pos >= Len(if_was_scalar) THEN rslt
    ELSE mul_inner_assign(
             IF if_was_scalar[pos + 1] = 0 THEN rslt
             ELSE [rslt EXCEPT ![pos + exponent + 1] = if_was_scalar[pos + 1]],
             if_was_scalar, exponent, pos + 1)

\* the inner loop of multiply, from position pos (counted from 0): a zero
\* coefficient is skipped, another one is added at pos + exponent
RECURSIVE mul_inner(_, _, _, _)
mul_inner(rslt, if_was_scalar, exponent, pos) ==
    IF pos >= Len(if_was_scalar) THEN rslt
    ELSE mul_inner(
             IF if_was_scalar[pos + 1] = 0 THEN rslt
             ELSE [rslt EXCEPT ![pos + exponent + 1] = @ + if_was_scalar[pos + 1]],
             if_was_scalar, exponent, pos + 1)

\* the outer loop of multiply, from the coefficient of p2 of power exponent
RECURSIVE mul_outer(_, _, _, _)
mul_outer(rslt, p1, p2, exponent) ==
    IF exponent >= Len(p2) THEN rslt
    ELSE mul_outer(
             IF p2[exponent + 1] = 0 THEN rslt
             ELSE mul_inner(rslt, scalar_mul(p2[exponent + 1], p1), exponent, 0),
             p1, p2, exponent + 1)

\* multiply::<S1, S2, S3>(p1, p2) with S3 = S1 + S2 - 1
multiply(p1, p2) == mul_outer(poly_zeros(Len(p1) + Len(p2) - 1), p1, p2, 0)

\* the loop of eval_n_deriv over the coefficients of power i down to 1
RECURSIVE horner(_, _, _, _, _)
horner(p, x, i, acc_eval, acc_deriv) ==
    IF i < 1 THEN <<acc_eval, acc_deriv>>
    ELSE LET e == acc_eval * x + p[i + 1]
         IN  horner(p, x, i - 1, e, acc_deriv * x + e)

\* Polynomial::eval_n_deriv(x): the value and the derivative at x
eval_n_deriv(p, x) ==
    IF Len(p) = 1 THEN <<p[1], 0>>
    ELSE LET h == horner(p, x, Len(p) - 2, p[Len(p)], p[Len(p)])
         IN  <<x * h[1] + p[1], h[2]>>

\* Polynomial::eval(x)
poly_eval(p, x) == eval_n_deriv(p, x)[1]

InitPoly ==
    /\ states = <<>>
    /\ pushed = 0
    /\ finalized = FALSE
    /\ last_op = [op |-> "new"]
    /\ fb = [pc |-> "idle"]
    /\ fa = [pc |-> "idle"]
    /\ it = [pc |-> "idle"]
    /\ obj \in {[ty |-> "polynomials", p1 |-> p1, p2 |-> p2]
                : p1 \in Polynomials(MaxSize1), p2 \in Polynomials(MaxSize2)}

\* let p3 = multiply(p1, p2), then p1.eval(x), p2.eval(x) and p3.eval(x) at
\* every point x, as the test poly_multiply does
Multiply ==
    /\ obj.ty = "polynomials"
    /\ LET p3 == multiply(obj.p1, obj.p2)
       IN  last_op' = [op |-> "multiply", p3 |-> p3,
                       evals |-> [x \in (0 - MaxX)..MaxX |->
                                    [y1 |-> poly_eval(obj.p1, x),
                                     y2 |-> poly_eval(obj.p2, x),
                                     y3 |-> poly_eval(p3, x)]]]
    /\ UNCHANGED <<states, pushed, finalized, fb, fa, it, obj>>

NextPoly == Multiply

SpecPoly == InitPoly /\ [][NextPoly]_vars

\* ------------------------------------------- properties of Polynomial

\* the sum of f over the integers lo..hi
RECURSIVE SumOver(_, _, _)
SumOver(f(_), lo, hi) == IF lo > hi THEN 0 ELSE f(lo) + SumOver(f, lo + 1, hi)

\* the coefficient of power k of the product: the sum of p1[i] * p2[j] over
\* i + j = k (powers counted from 0)
ConvolutionAt(p1, p2, k) ==
    LET term(i) == IF i < Len(p1) /\ k - i >= 0 /\ k - i < Len(p2)
                   THEN p1[i + 1] * p2[k - i + 1] ELSE 0
    IN  SumOver(term, 0, k)

\* C24: multiply(p1, p2) is the convolution of the coefficients of p1 and p2,
\* and its value at x is p1.eval(x) * p2.eval(x).
C24_MultiplyIsConvolution ==
    last_op.op = "multiply" =>
        /\ Len(last_op.p3) = Len(obj.p1) + Len(obj.p2) - 1
        /\ \A k \in 0..(Len(last_op.p3) - 1) :
               last_op.p3[k + 1] = ConvolutionAt(obj.p1, obj.p2, k)
        /\ \A x \in (0 - MaxX)..MaxX :
               last_op.evals[x].y3 = last_op.evals[x].y1 * last_op.evals[x].y2

\* a product of a polynomial of SIZE 3 and one of SIZE 2 in which two terms
\* add up in one coefficient and a zero coefficient is skipped, with a value
\* other than 0 at the point 2
C24_Witness ==
    /\ last_op.op = "multiply"
    /\ Len(obj.p1) = 3 /\ Len(obj.p2) = 2
    /\ obj.p1[3] # 0 /\ obj.p1[2] # 0 /\ obj.p1[1] = 0
    /\ obj.p2[1] # 0 /\ obj.p2[2] # 0
    /\ last_op.evals[2].y3 # 0

\* ------- InterpState (src/md/trajectory/mod.rs), Spacecraft::stm
\* An orbit is the record of its position x, y, z, its velocity vx, vy, vz
\* and its optional state transition matrix; a spacecraft is an orbit with
\* cr, cd and fuel_mass_kg.

\* the largest value of a field, and the largest number of calls of
\* set_value_and_deriv on one state
MaxVal == 1
MaxSets == 2

\* <Spacecraft as State>::Size = Const<7>, the size of the matrix stm()
\* returns; the orbit's matrix is a Matrix6
SpacecraftSize == 7
OrbitSize == 6

\* StateParameter: the parameters the two implementations name, and VX for
\* every other one
StateParameters == {"X", "Y", "Z", "VX", "FuelMass", "Cr", "Cd"}

\* InterpState::params()
params(ty) ==
    IF ty = "Orbit" THEN <<"X", "Y", "Z">> ELSE <<"X", "Y", "Z", "FuelMass">>

\* Matrix6::identity()
identity == [ij \in (0..(OrbitSize - 1)) \X (0..(OrbitSize - 1)) |->
               IF ij[1] = ij[2] THEN 1 ELSE 0]

\* Orbit::zeros() with no state transition matrix, as an Orbit or inside
\* Spacecraft::zeros()
state_zeros(ty) ==
    LET orbit == [x |-> 0, y |-> 0, z |-> 0, vx |-> 0, vy |-> 0, vz |-> 0,
                  stm |-> [some |-> FALSE]]
    IN  IF ty = "Orbit" THEN [ty |-> ty, orbit |-> orbit]
        ELSE [ty |-> ty, orbit |-> orbit, cr |-> 0, cd |-> 0, fuel_mass_kg |-> 0]

Unavailable == [kind |-> "ParameterUnavailableForType"]

\* InterpState::value_and_deriv of an Orbit and of a Spacecraft
value_and_deriv(st, param) ==
    CASE param = "X" -> [kind |-> "Ok", value |-> st.orbit.x, deriv |-> st.orbit.vx]
      [] param = "Y" -> [kind |-> "Ok", value |-> st.orbit.y, deriv |-> st.orbit.vy]
      [] param = "Z" -> [kind |-> "Ok", value |-> st.orbit.z, deriv |-> st.orbit.vz]
      [] param = "FuelMass" /\ st.ty = "Spacecraft" ->
            [kind |-> "Ok", value |-> st.fuel_mass_kg, deriv |-> 0]
      [] OTHER -> Unavailable

\* InterpState::set_value_and_deriv of an Orbit and of a Spacecraft: the
\* result and the state after the call
set_value_and_deriv(st, param, value, value_dt) ==
    CASE param = "X" ->
            [kind |-> "Ok", state |-> [st EXCEPT !.orbit.x = value, !.orbit.vx = value_dt]]
      [] param = "Y" ->
            [kind |-> "Ok", state |-> [st EXCEPT !.orbit.y = value, !.orbit.vy = value_dt]]
      [] param = "Z" ->
            [kind |-> "Ok", state |-> [st EXCEPT !.orbit.z = value, !.orbit.vz = value_dt]]
      [] param = "Cr" /\ st.ty = "Spacecraft" ->
            [kind |-> "Ok", state |-> [st EXCEPT !.cr = value]]
      [] param = "Cd" /\ st.ty = "Spacecraft" ->
            [kind |-> "Ok", state |-> [st EXCEPT !.cd = value]]
      [] param = "FuelMass" /\ st.ty = "Spacecraft" ->
            [kind |-> "Ok", state |-> [st EXCEPT !.fuel_mass_kg = value]]
      [] OTHER -> [kind |-> "ParameterUnavailableForType", state |-> st]

\* Spacecraft::enable_stm
enable_stm(sc) == [sc EXCEPT !.orbit.stm = [some |-> TRUE, m |-> identity]]

\* rtn[(i, j)] = value on a matrix of `size` rows and columns: an index out
\* of bounds panics
index_mut(rtn, size, i, j, value) ==
    IF i >= size \/ j >= size THEN [kind |-> "panic"]
    ELSE [kind |-> "Ok", m |-> [rtn EXCEPT ![<<i, j>>] = value]]

\* <Spacecraft as State>::stm
stm(sc) ==
    IF ~sc.orbit.stm.some THEN [kind |-> "StateTransitionMatrixUnset"]
    ELSE LET rtn == [ij \in (0..(SpacecraftSize - 1)) \X (0..(SpacecraftSize - 1)) |->
                       IF ij[1] < 6 /\ ij[2] < 6 THEN sc.orbit.stm.m[ij] ELSE 0]
         IN  index_mut(rtn, SpacecraftSize, 9, 9, 0)

InitIS ==
    /\ states = <<>>
    /\ pushed = 0
    /\ finalized = FALSE
    /\ last_op = [op |-> "new"]
    /\ fb = [pc |-> "idle"]
    /\ fa = [pc |-> "idle"]
    /\ it = [pc |-> "idle"]
    /\ obj \in {state_zeros("Orbit"), state_zeros("Spacecraft")}

\* state.set_value_and_deriv(&param, value, value_dt)
SetValueAndDeriv ==
    /\ obj.ty \in {"Orbit", "Spacecraft"}
    /\ pushed < MaxSets
    /\ \E param \in StateParameters, value \in 0..MaxVal, value_dt \in 0..MaxVal :
         LET r == set_value_and_deriv(obj, param, value, value_dt)
         IN  /\ obj' = r.state
             /\ last_op' = [op |-> "set_value_and_deriv", param |-> param,
                            value |-> value, value_dt |-> value_dt,
                            kind |-> r.kind, before |-> obj]
    /\ pushed' = pushed + 1
    /\ UNCHANGED <<states, finalized, fb, fa, it>>

\* state.value_and_deriv(&param)
ValueAndDeriv ==
    /\ obj.ty \in {"Orbit", "Spacecraft"}
    /\ \E param \in StateParameters :
         last_op' = [op |-> "value_and_deriv", param |-> param,
                     res |-> value_and_deriv(obj, param)]
    /\ UNCHANGED <<states, pushed, finalized, fb, fa, it, obj>>

\* sc.enable_stm()
EnableStm ==
    /\ obj.ty = "Spacecraft"
    /\ obj' = enable_stm(obj)
    /\ last_op' = [op |-> "enable_stm"]
    /\ UNCHANGED <<states, pushed, finalized, fb, fa, it>>

\* State::stm(&sc)
Stm ==
    /\ obj.ty = "Spacecraft"
    /\ last_op' = [op |-> "stm", res |-> stm(obj)]
    /\ UNCHANGED <<states, pushed, finalized, fb, fa, it, obj>>

NextIS == SetValueAndDeriv \/ ValueAndDeriv \/ EnableStm \/ Stm

SpecIS == InitIS /\ [][NextIS]_vars

\* ------------------------------ properties of InterpState and of stm()

InParams(ty, param) == \E i \in 1..Len(params(ty)) : params(ty)[i] = param

\* the state `after` differs from `before` in the value and the derivative of
\* param at most
OnlyParamChanged(before, after, param) ==
    \E value \in 0..MaxVal, value_dt \in 0..MaxVal :
        after = CASE param = "X" -> [before EXCEPT !.orbit.x = value, !.orbit.vx = value_dt]
                  [] param = "Y" -> [before EXCEPT !.orbit.y = value, !.orbit.vy = value_dt]
                  [] param = "Z" -> [before EXCEPT !.orbit.z = value, !.orbit.vz = value_dt]
                  [] param = "FuelMass" -> [before EXCEPT !.fuel_mass_kg = value]
                  [] OTHER -> before

\* what C29 says of a call of set_value_and_deriv that has returned
SetThenGet ==
    /\ InParams(obj.ty, last_op.param) =>
           /\ last_op.kind = "Ok"
           /\ OnlyParamChanged(last_op.before, obj, last_op.param)
           /\ value_and_deriv(obj, last_op.param)
                  = [kind |-> "Ok", value |-> last_op.value, deriv |-> last_op.value_dt]
    /\ last_op.kind = "ParameterUnavailableForType" => obj = last_op.before
    /\ (last_op.kind = "Ok") <=> (value_and_deriv(obj, last_op.param).kind = "Ok")

\* C29: for an Orbit and a Spacecraft, set_value_and_deriv(p, v, d) of a
\* parameter of params() returns Ok, changes the value and the derivative of
\* p only and is read back as (v, d) by value_and_deriv(p); a rejected call
\* leaves the state unchanged; value_and_deriv accepts the parameters that
\* set_value_and_deriv accepts, and no other.
C29_SetThenGet ==
    last_op.op = "set_value_and_deriv" => SetThenGet

\* the same, for an Orbit alone
C29_Orbit ==
    (last_op.op = "set_value_and_deriv" /\ obj.ty = "Orbit") => SetThenGet

\* C30: Spacecraft::stm() returns StateTransitionMatrixUnset when the orbit
\* has no matrix, and otherwise Ok with a 7x7 matrix whose upper-left 6x6
\* block is the orbit's matrix and whose other entries are zero; no index is
\* out of bounds.
C30_StmBlock ==
    last_op.op = "stm" =>
        IF ~obj.orbit.stm.some
        THEN last_op.res.kind = "StateTransitionMatrixUnset"
        ELSE /\ last_op.res.kind = "Ok"
             /\ \A i \in 0..(SpacecraftSize - 1), j \in 0..(SpacecraftSize - 1) :
                    last_op.res.m[<<i, j>>]
                        = IF i < OrbitSize /\ j < OrbitSize
                          THEN obj.orbit.stm.m[<<i, j>>] ELSE 0

\* the same, for a spacecraft whose orbit has no matrix
C30_StmUnset ==
    (last_op.op = "stm" /\ ~obj.orbit.stm.some)
        => last_op.res.kind = "StateTransitionMatrixUnset"

====
